---- MODULE Spec2Model ----
(***************************************************************************)
(* A model of mldatafind/io.py: the filename matcher fname_re, the         *)
(* interval selector filter_and_sort_files, the container validator        *)
(* __validate_ts_dict with ts_dict_to_array, and write_timeseries.          *)
(*                                                                         *)
(* Every operation is a pure function of its arguments.  A state holds one *)
(* call: the operation op, its arguments args, the position pc ("call"     *)
(* before the operation has run, "return" after) and its result.  Init     *)
(* draws the arguments from bounded pools; one action per operation        *)
(* applies it.                                                             *)
(*                                                                         *)
(* File names and paths are sequences of one-character strings, so that    *)
(* matching, formatting and comparing them is computed character by        *)
(* character as the code does.  Times are integers (seconds); the times    *)
(* axis of write_timeseries is counted in half seconds so that a           *)
(* non-integral start or length can occur.                                 *)
(***************************************************************************)
EXTENDS Integers, Sequences, FiniteSets, TLC

VARIABLES op, args, pc, result

vars == <<op, args, pc, result>>

(***************************************************************************)
(* Characters.                                                             *)
(***************************************************************************)
Digits == {"0", "1", "2", "3", "4", "5", "6", "7", "8", "9"}

NonZeroDigits == Digits \ {"0"}

Letters ==
    {"a", "b", "c", "d", "e", "f", "g", "h", "i", "j", "k", "l", "m",
     "n", "o", "p", "q", "r", "s", "t", "u", "v", "w", "x", "y", "z",
     "A", "B", "C", "D", "E", "F", "G", "H", "I", "J", "K", "L", "M",
     "N", "O", "P", "Q", "R", "S", "T", "U", "V", "W", "X", "Y", "Z"}

\* The characters in code point order; Ord(c) is c's rank in it.
CodePointOrder ==
    <<"\n", "!", "-", ".", "/",
      "0", "1", "2", "3", "4", "5", "6", "7", "8", "9", ":",
      "A", "B", "C", "D", "E", "F", "G", "H", "I", "J", "K", "L", "M",
      "N", "O", "P", "Q", "R", "S", "T", "U", "V", "W", "X", "Y", "Z",
      "_",
      "a", "b", "c", "d", "e", "f", "g", "h", "i", "j", "k", "l", "m",
      "n", "o", "p", "q", "r", "s", "t", "u", "v", "w", "x", "y", "z">>

OrdTable ==
    [c \in {CodePointOrder[k] : k \in 1..Len(CodePointOrder)} |->
        CHOOSE k \in 1..Len(CodePointOrder) : CodePointOrder[k] = c]

Ord(c) == OrdTable[c]

DigitValue(c) == Ord(c) - Ord("0")

DigitChar(d) == CodePointOrder[Ord("0") + d]

SetMax(S) == CHOOSE x \in S : \A y \in S : y <= x

SetMin(S) == CHOOSE x \in S : \A y \in S : x <= y

\* s[q .. q+Len(w)-1] = w
StartsWith(s, q, w) ==
    /\ q >= 1
    /\ q + Len(w) - 1 <= Len(s)
    /\ \A k \in 1..Len(w) : s[q + k - 1] = w[k]

\* str < str in Python: lexicographic by code point
StrLess(a, b) ==
    \E k \in 1..(Len(b)) :
        /\ k <= Len(a) + 1
        /\ \A j \in 1..(k - 1) : a[j] = b[j]
        /\ (k = Len(a) + 1 \/ Ord(a[k]) < Ord(b[k]))

(***************************************************************************)
(* fname_re, io.py lines 11-19:                                            *)
(*   (?P<prefix>[a-zA-Z0-9_:-]+)-(?P<t0>[0-9]{10})-                        *)
(*   (?P<length>[1-9][0-9]{0,3}).(?P<suffix>gwf|hdf5|h5)$                  *)
(***************************************************************************)
T0Digits == 10

LengthMaxDigits == 4

\* the character class of prefix_re
PrefixChars == Letters \cup Digits \cup {"_", ":", "-"}

prefix_re(c) == c \in PrefixChars

\* t0_re matches s[p .. p+T0Digits-1]
t0_re(s, p) ==
    /\ p + T0Digits - 1 <= Len(s)
    /\ \A k \in p..(p + T0Digits - 1) : s[k] \in Digits

\* length_re matches the n characters s[p .. p+n-1]
length_re(s, p, n) ==
    /\ n \in 1..LengthMaxDigits
    /\ p + n - 1 <= Len(s)
    /\ s[p] \in NonZeroDigits
    /\ \A k \in (p + 1)..(p + n - 1) : s[k] \in Digits

\* the alternatives of the suffix group, in the order the pattern tries them
suffix_re == << <<"g", "w", "f">>, <<"h", "d", "f", "5">>, <<"h", "5">> >>

\* "." of the pattern: any one character but a newline
AnyChar(s, p) == p <= Len(s) /\ s[p] # "\n"

\* "$" without re.MULTILINE: the end of the string, or just before a
\* newline that ends the string
EndOfString(s, q) == q = Len(s) + 1 \/ (q = Len(s) /\ s[q] = "\n")

\* the first alternative of suffix_re that matches at q and is followed by
\* "$"; 0 when none does
SuffixAt(s, q) ==
    LET alts == {a \in 1..Len(suffix_re) :
                    /\ StartsWith(s, q, suffix_re[a])
                    /\ EndOfString(s, q + Len(suffix_re[a]))}
    IN IF alts = {} THEN 0 ELSE SetMin(alts)

\* The pattern after the prefix group, from the "-" at p on: the sizes n of
\* the length group with which the rest of the pattern matches to the end.
TailSizes(s, p) ==
    {n \in 1..LengthMaxDigits :
        /\ p <= Len(s) /\ s[p] = "-"
        /\ t0_re(s, p + 1)
        /\ p + T0Digits + 1 <= Len(s) /\ s[p + T0Digits + 1] = "-"
        /\ length_re(s, p + T0Digits + 2, n)
        /\ AnyChar(s, p + T0Digits + 2 + n)
        /\ SuffixAt(s, p + T0Digits + 3 + n) # 0}

\* The positions p of the "-" that ends a prefix starting at i, with which
\* the whole pattern matches.
PrefixEnds(s, i) ==
    {p \in (i + 1)..Len(s) :
        /\ TailSizes(s, p) # {}
        /\ \A k \in i..(p - 1) : prefix_re(s[k])}

\* re.Match is modelled by its string and its named groups; None by NoMatch
NoMatch == [matched |-> FALSE]

\* The match of the pattern anchored at i: both quantifiers are greedy.
MatchAt(s, i) ==
    LET p == SetMax(PrefixEnds(s, i))
        n == SetMax(TailSizes(s, p))
        q == p + T0Digits + 3 + n
    IN [matched |-> TRUE,
        string  |-> s,
        prefix  |-> SubSeq(s, i, p - 1),
        t0      |-> SubSeq(s, p + 1, p + T0Digits),
        length  |-> SubSeq(s, p + T0Digits + 2, p + T0Digits + 1 + n),
        suffix  |-> suffix_re[SuffixAt(s, q)]]

\* fname_re.search(s): the match at the leftmost position that has one
fname_re_search(s) ==
    LET starts == {i \in 1..Len(s) : PrefixEnds(s, i) # {}}
    IN IF starts = {} THEN NoMatch ELSE MatchAt(s, SetMin(starts))

(***************************************************************************)
(* Numbers and their text.                                                 *)
(***************************************************************************)
\* float(token) of a token of decimal digits
RECURSIVE float(_)
float(tok) ==
    IF Len(tok) = 0 THEN 0
    ELSE 10 * float(SubSeq(tok, 1, Len(tok) - 1)) + DigitValue(tok[Len(tok)])

\* str(n) of an int n, as an f-string prints it
RECURSIVE str(_)
str(n) ==
    IF n < 0 THEN <<"-">> \o str(0 - n)
    ELSE IF n < 10 THEN <<DigitChar(n)>>
    ELSE str(n \div 10) \o <<DigitChar(n % 10)>>

\* Optional[float]: None, or a value
None == <<>>

Some(v) == <<v>>

(***************************************************************************)
(* Paths.  An entry of fnames is a str or a pathlib.Path; both are held as *)
(* [kind, path] with path the text.                                        *)
(***************************************************************************)
SlashesOf(path) == {k \in 1..Len(path) : path[k] = "/"}

\* the text cut at every "/"
RECURSIVE SplitSlash(_)
SplitSlash(path) ==
    IF SlashesOf(path) = {} THEN <<path>>
    ELSE LET k == SetMin(SlashesOf(path))
         IN <<SubSeq(path, 1, k - 1)>> \o SplitSlash(SubSeq(path, k + 1, Len(path)))

\* Path(f).root: "/" for an absolute path, "//" for exactly two leading slashes
LeadingSlashes(path) ==
    Cardinality({k \in 1..Len(path) : \A j \in 1..k : path[j] = "/"})
PathRoot(path) ==
    IF LeadingSlashes(path) = 0 THEN <<>>
    ELSE IF LeadingSlashes(path) = 2 THEN <<"/", "/">>
    ELSE <<"/">>

\* the components Path(f) keeps: empty and "." components are dropped, and
\* with them a repeated or trailing slash
IsComponent(c) == c # <<>> /\ c # <<".">>
PathComponents(path) == SelectSeq(SplitSlash(path), IsComponent)

\* Path(f).parts: the root, when there is one, then the components
PathParts(path) ==
    (IF PathRoot(path) = <<>> THEN <<>> ELSE <<PathRoot(path)>>)
        \o PathComponents(path)

\* Path(f).name: the last component, empty when there is none
PathName(path) ==
    IF PathComponents(path) = <<>> THEN <<>>
    ELSE PathComponents(path)[Len(PathComponents(path))]

\* str(Path(f)): the root and the components joined by "/", "." when empty
RECURSIVE JoinSlash(_)
JoinSlash(parts) ==
    IF parts = <<>> THEN <<>>
    ELSE IF Len(parts) = 1 THEN parts[1]
    ELSE parts[1] \o <<"/">> \o JoinSlash(Tail(parts))
TextOf(root, components) ==
    IF root = <<>> /\ components = <<>> THEN <<".">>
    ELSE root \o JoinSlash(components)
PathText(path) == TextOf(PathRoot(path), PathComponents(path))

\* Path(a) / b: b alone when b has a root, else b's components after a's
PathJoin(a, b) ==
    IF PathRoot(b) # <<>> THEN PathText(b)
    ELSE TextOf(PathRoot(a), PathComponents(a) \o PathComponents(b))

\* Path < Path: the lists of parts compared, each part as a str
\* (pathlib of Python 3.11; from 3.12 on the text is cut at "/" instead,
\* which orders an absolute path before every relative one)
PartsLess(a, b) ==
    \E k \in 1..Len(b) :
        /\ k <= Len(a) + 1
        /\ \A j \in 1..(k - 1) : a[j] = b[j]
        /\ (k = Len(a) + 1 \/ StrLess(a[k], b[k]))

\* f < g for two entries of the same kind
EntryLess(f, g) ==
    IF f.kind = "Path" THEN PartsLess(PathParts(f.path), PathParts(g.path))
    ELSE StrLess(f.path, g.path)

\* f == g for two entries of the same kind: Paths are equal when their
\* parts are, strs when their text is
EntryEqual(f, g) ==
    IF f.kind = "Path" THEN PathParts(f.path) = PathParts(g.path)
    ELSE f.path = g.path

(***************************************************************************)
(* The files the calls are about.                                          *)
(***************************************************************************)
\* GPS seconds of the first file
TBase == 10^9

hdf5 == <<"h", "d", "f", "5">>

gwf == <<"g", "w", "f">>

h5 == <<"h", "5">>

\* <prefix>-<t0>-<length>.<suffix>, the naming convention
FileName(prefix, t0, length, suffix) ==
    prefix \o <<"-">> \o t0 \o <<"-">> \o length \o <<".">> \o suffix

\* A-1000000000-2.hdf5, A-1000000002-1.hdf5, /B-1000000000-1.gwf,
\* d//A-0999999999-3.gwf and timeseries.hdf5, as the caller writes them
FileA0 == FileName(<<"A">>, str(TBase), <<"2">>, hdf5)

FileA2 == FileName(<<"A">>, str(TBase + 2), <<"1">>, hdf5)

FileB0 == <<"/">> \o FileName(<<"B">>, str(TBase), <<"1">>, gwf)

FileEarly == <<"d", "/", "/">> \o FileName(<<"A">>, <<"0">> \o str(TBase - 1), <<"3">>, gwf)

FileOther == <<"t", "i", "m", "e", "s", "e", "r", "i", "e", "s", ".">> \o hdf5

FilePool == {FileA0, FileA2, FileB0, FileEarly, FileOther}

NamePool == {PathName(f) : f \in FilePool}

\* line 86, map(fname_re.search, fname_it): the match of every name,
\* computed once
SearchTable == [s \in NamePool |-> fname_re_search(s)]

\* fname_re.search(s), read from the table for the names it holds
Searched(s) == IF s \in NamePool THEN SearchTable[s] ELSE fname_re_search(s)

\* the result of a call: a returned value or a raised exception; order is
\* the position in the candidate list of each returned entry
Return(value, order) == [kind |-> "return", value |-> value, order |-> order]

\* line is the line of io.py that raises
Raise(exc, line) == [kind |-> "raise", exc |-> exc, line |-> line]

(***************************************************************************)
(* filter_and_sort_files, io.py lines 22-115.                              *)
(***************************************************************************)
\* lines 54-68 and the else branch: the candidate list fnames.  A single
\* str or Path becomes a Path; a directory becomes its iterdir().
Candidates(fnames) ==
    IF fnames.form = "path"
    THEN IF ~fnames.is_dir
         THEN <<[kind |-> "Path", path |-> PathText(fnames.path)]>>
         ELSE [k \in 1..Len(fnames.iterdir) |->
                  [kind |-> "Path",
                   path |-> PathJoin(fnames.path, fnames.iterdir[k])]]
    ELSE fnames.items

\* lines 73-75: an iterable that is neither all Paths nor all strs
NotHomogeneous(fnames) ==
    /\ fnames.form = "iterable"
    /\ ~(\A k \in 1..Len(fnames.items) : fnames.items[k].kind = "Path")
    /\ ~(\A k \in 1..Len(fnames.items) : fnames.items[k].kind = "str")

\* lines 76-81: the raise statement.  Its message is built first, and
\* ", ".join of a list of type objects raises TypeError, so the ValueError
\* is never constructed.
InvalidInputRaise == Raise("TypeError", 80)

\* line 92: float(match.group("t0")) < tf
BeforeTf(match, tf) == float(match.t0) < tf

\* lines 97 and 101: float(length) + float(t0) > t0
AfterT0(match, t0) == float(match.length) + float(match.t0) > t0

\* lines 89-101: mask[k] for a candidate whose name matched
Mask(match, t0, tf) ==
    /\ (tf # None => BeforeTf(match, tf[1]))
    /\ (t0 # None => AfterT0(match, t0[1]))

\* TupLess with the tuple built as (f, m.group("t0"), m): the path decides
\* before the timestamp
TupLessByEntry(x, y) ==
    \/ EntryLess(x.f, y.f)
    \/ (EntryEqual(x.f, y.f) /\ StrLess(x.t0, y.t0))

\* line 115, sorted(tups): the tuples (m.group("t0"), f, m) compare by the
\* t0 token as a str, then by f
TupLess(x, y) ==
    \/ StrLess(x.t0, y.t0)
    \/ (x.t0 = y.t0 /\ EntryLess(x.f, y.f))

\* two tuples equal in t0 and f compare their re.Match objects, which
\* have no order: sorted raises TypeError
TupIncomparable(x, y) == x.t0 = y.t0 /\ EntryEqual(x.f, y.f)

\* sorted() is stable: k's place among the indices S
SortedPlace(tup, S, k) ==
    1 + Cardinality({j \in S :
            \/ TupLess(tup[j], tup[k])
            \/ (~TupLess(tup[k], tup[j]) /\ j < k)})

sorted(tup, S) ==
    [r \in 1..Cardinality(S) |-> CHOOSE k \in S : SortedPlace(tup, S, k) = r]

filter_and_sort_files(fnames, t0, tf, return_matches) ==
    IF NotHomogeneous(fnames) THEN InvalidInputRaise
    ELSE
    LET cands    == Candidates(fnames)
        idx      == 1..Len(cands)
        fname_it == [k \in idx |-> PathName(cands[k].path)]
        matches  == [k \in idx |-> Searched(fname_it[k])]
        unmatched == \E k \in idx : ~matches[k].matched
    IN  \* lines 91-92: match.group on None raises AttributeError; the mask
        \* of no candidates is a float64 array and "&=" raises TypeError
        IF tf # None /\ unmatched THEN Raise("AttributeError", 92)
        ELSE IF tf # None /\ idx = {} THEN Raise("TypeError", 92)
        \* lines 94-101
        ELSE IF t0 # None /\ unmatched THEN Raise("AttributeError", 97)
        ELSE
        LET \* lines 103-110
            kept == {k \in idx : matches[k].matched /\ Mask(matches[k], t0, tf)}
            tup  == [k \in idx |-> [t0 |-> matches[k].t0, f |-> cands[k]]]
        IN  IF \E i, j \in kept : i # j /\ TupIncomparable(tup[i], tup[j])
            THEN Raise("TypeError", 115)
            ELSE
            LET order == sorted(tup, kept)
            IN Return([r \in 1..Len(order) |->
                          IF return_matches THEN matches[order[r]]
                          ELSE cands[order[r]]],
                      order)

(***************************************************************************)
(* __validate_ts_dict and ts_dict_to_array, io.py lines 118-153.  A         *)
(* TimeSeriesDict is the sequence of its channels in insertion order, each *)
(* [name, t0, dt, value].                                                  *)
(***************************************************************************)
\* TsParams without len(ts)
TsParamsNoLength(ts) == <<ts.t0, ts.dt>>

\* line 123: (ts.t0.value, ts.dt, len(ts))
TsParams(ts) == <<ts.t0, ts.dt, Len(ts.value)>>

\* lines 122-125
unique_ts_params(ts_dict) == {TsParams(ts_dict[k]) : k \in 1..Len(ts_dict)}

\* lines 126-131: the ValueError, or None
_validate_ts_dict(ts_dict) ==
    IF Cardinality(unique_ts_params(ts_dict)) # 1
    THEN Raise("ValueError", 127)
    ELSE Return(None, <<>>)

\* ts.times.value: t0 + arange(len) * dt
TsTimes(ts) == [k \in 1..Len(ts.value) |-> ts.t0 + (k - 1) * ts.dt]

\* lines 145-153
ts_dict_to_array(ts_dict) ==
    IF _validate_ts_dict(ts_dict).kind = "raise" THEN _validate_ts_dict(ts_dict)
    ELSE Return([data  |-> [k \in 1..Len(ts_dict) |-> ts_dict[k].value],
                 times |-> TsTimes(ts_dict[1])],
                <<>>)

(***************************************************************************)
(* write_timeseries, io.py lines 247-299.  times counts half seconds.      *)
(***************************************************************************)
\* line 248: int(x) if int(x) == x else x, for x = h half seconds
_intify(h) ==
    IF h % 2 = 0 THEN [is_int |-> TRUE, int |-> h \div 2]
    ELSE [is_int |-> FALSE, halves |-> h]

\* |h|
Abs(h) == IF h < 0 THEN 0 - h ELSE h

\* "{x}" in the f-string of line 295: an int prints its sign and digits, a
\* float with half a second its sign, the whole seconds towards zero and ".5"
Formatted(x) ==
    IF x.is_int THEN str(x.int)
    ELSE (IF x.halves < 0 THEN <<"-">> ELSE <<>>)
         \o str(Abs(x.halves) \div 2) \o <<".", "5">>

\* the numbers of times: Python floats, or the float64 of an ndarray
NumberKinds == {"float", "float64"}

\* line 295: the suffix written into the name
WrittenSuffix(file_format) == <<"h", "d", "f", "5">>

\* line 273
SupportedFormats == {<<"h", "d", "f", "5">>, <<"g", "w", "f">>}

write_timeseries(write_dir, times, prefix, file_format, datasets, numbers) ==
    IF file_format \notin SupportedFormats THEN Raise("ValueError", 274)
    ELSE IF Cardinality({Len(datasets[k].value) : k \in 1..Len(datasets)}) # 1
    THEN Raise("ValueError", 280)
    \* line 282: times[-1], times[0], times[1]
    ELSE IF Len(times) < 2 THEN Raise("IndexError", 282)
    \* line 290, 1 / (times[1] - times[0]): a Python float divides by zero;
    \* a float64 gives inf, and dt = 1 / inf = 0.0 at line 292
    ELSE IF times[2] = times[1] /\ numbers = "float"
    THEN Raise("ZeroDivisionError", 290)
    ELSE
    LET length == times[Len(times)] - times[1] + times[2] - times[1]
        t0     == times[1]
        fname  == PathJoin(write_dir,
                           prefix \o <<"-">>
                           \o Formatted(_intify(t0)) \o <<"-">>
                           \o Formatted(_intify(length)) \o <<".">>
                           \o WrittenSuffix(file_format))
    IN Return([kind |-> "Path", path |-> fname], <<>>)

(***************************************************************************)
(* The arguments the calls are drawn from.                                 *)
(***************************************************************************)
MaxFiles == 3

MaxT == 3

MaxChannels == 3

MaxSamples == 3

MaxDatasets == 2

Kinds == {"Path", "str"}

\* an entry as the caller holds it: a str is its text, a Path the text
\* Path(text) keeps
Entry(kind, text) ==
    [kind |-> kind, path |-> IF kind = "Path" THEN PathText(text) ELSE text]

\* the entries of an iterable: every list of at most MaxFiles files; all of
\* one kind, or the first of one kind and the rest of the other
IterableInputs ==
    UNION {{[form  |-> "iterable",
             items |-> [k \in 1..n |->
                          Entry(IF k = 1 THEN a ELSE b, fs[k])]] :
               fs \in [1..n -> FilePool], a \in Kinds, b \in Kinds} :
           n \in 0..MaxFiles}

\* a single str or Path that is no directory
FileInputs ==
    {[form |-> "path", kind |-> a, path |-> f, is_dir |-> FALSE, iterdir |-> <<>>] :
        a \in Kinds, f \in FilePool}

\* a directory d, with its entries in the order iterdir() yields them
DirInputs ==
    UNION {{[form |-> "path", kind |-> a, path |-> <<"d">>, is_dir |-> TRUE,
             iterdir |-> fs] :
               fs \in {g \in [1..n -> NamePool] :
                          \A i, j \in 1..n : i # j => g[i] # g[j]},
               a \in Kinds} :
           n \in 0..MaxFiles}

TimeInputs == {None} \cup {Some(TBase + k) : k \in 0..MaxT}

\* names around the convention, for fname_re
SearchInputs ==
    {lead \o prefix \o <<"-">> \o t0 \o <<"-">> \o length \o sep \o suffix \o trail :
        lead \in {<<>>, <<"!">>},
        prefix \in {<<"A">>, <<>>, <<"H", "1", ":", "a", "_", "-", "b">>, <<"a", ".">>,
                    <<"A", "-">> \o str(TBase)},
        t0 \in {str(TBase), <<"0">> \o str(TBase - 1), str(TBase \div 10),
                str(TBase) \o <<"0">>},
        length \in {<<"1">>, <<"1", "0", "2", "4">>, <<"0">>, <<"0", "1">>,
                    <<"1", "2", "3", "4", "5">>, <<>>},
        sep \in {<<".">>, <<"x">>, <<"\n">>, <<>>},
        suffix \in {hdf5, gwf, h5, <<"t", "x", "t">>, <<"h", "d", "f">>},
        trail \in {<<>>, <<"\n">>, <<"x">>}}

\* a channel: np.arange(len) sampled every dt from t0
Channel(name, t0, dt, len) ==
    [name |-> name, t0 |-> t0, dt |-> dt, value |-> [j \in 1..len |-> j - 1]]

ChannelParams == {TBase, TBase + 1} \X {1, 2} \X {1, 2}

TsDictInputs ==
    UNION {{[k \in 1..n |-> Channel(k, ps[k][1], ps[k][2], ps[k][3])] :
               ps \in [1..n -> ChannelParams]} :
           n \in 0..MaxChannels}

\* a time axis in half seconds: n samples from start, period apart; the
\* period may be zero or negative
TimesInputs ==
    {[k \in 1..n |-> start + (k - 1) * period] :
        start \in {2 * TBase, 2 * TBase + 1},
        period \in {-2, 0, 1, 2, 4},
        n \in 0..MaxSamples}

DatasetsInputs ==
    UNION {{[k \in 1..n |-> [name |-> k, value |-> [j \in 1..lens[k] |-> j - 1]]] :
               lens \in [1..n -> {1, 2}]} :
           n \in 0..MaxDatasets}

(***************************************************************************)
(* The state machine.                                                      *)
(***************************************************************************)
NoResult == [kind |-> "none"]

Init ==
    /\ pc = "call"
    /\ result = NoResult
    /\ \/ /\ op = "filter_and_sort_files"
          /\ \E fnames \in IterableInputs \cup FileInputs \cup DirInputs,
                t0 \in TimeInputs, tf \in TimeInputs, return_matches \in BOOLEAN :
                args = [fnames |-> fnames, t0 |-> t0, tf |-> tf,
                        return_matches |-> return_matches]
       \/ /\ op = "fname_re.search"
          /\ \E string \in SearchInputs : args = [string |-> string]
       \/ /\ op \in {"_validate_ts_dict", "ts_dict_to_array"}
          /\ \E ts_dict \in TsDictInputs : args = [ts_dict |-> ts_dict]
       \/ /\ op = "write_timeseries"
          /\ \E times \in TimesInputs, prefix \in {<<"A">>, <<"H", "1">>},
                file_format \in {hdf5, gwf, h5}, datasets \in DatasetsInputs,
                numbers \in NumberKinds :
                args = [write_dir |-> <<"d">>, times |-> times, prefix |-> prefix,
                        file_format |-> file_format, datasets |-> datasets,
                        numbers |-> numbers]

Finish(value) ==
    /\ pc' = "return"
    /\ result' = value
    /\ UNCHANGED <<op, args>>

FilterAndSortFiles ==
    /\ pc = "call"
    /\ op = "filter_and_sort_files"
    /\ Finish(filter_and_sort_files(args.fnames, args.t0, args.tf, args.return_matches))

Search ==
    /\ pc = "call"
    /\ op = "fname_re.search"
    /\ Finish(fname_re_search(args.string))

ValidateTsDict ==
    /\ pc = "call"
    /\ op = "_validate_ts_dict"
    /\ Finish(_validate_ts_dict(args.ts_dict))

TsDictToArray ==
    /\ pc = "call"
    /\ op = "ts_dict_to_array"
    /\ Finish(ts_dict_to_array(args.ts_dict))

WriteTimeseries ==
    /\ pc = "call"
    /\ op = "write_timeseries"
    /\ Finish(write_timeseries(args.write_dir, args.times, args.prefix,
                               args.file_format, args.datasets, args.numbers))

Next ==
    \/ FilterAndSortFiles
    \/ Search
    \/ ValidateTsDict
    \/ TsDictToArray
    \/ WriteTimeseries

Spec == Init /\ [][Next]_vars

(***************************************************************************)
(* The naming convention as the specification states it:                   *)
(* <prefix>-<start>-<length>.<suffix> over the whole name, prefix one or   *)
(* more of [a-zA-Z0-9_:-], start 10 digits, length 1 to 4 digits with no   *)
(* leading zero, a literal ".", suffix hdf5 or gwf.                        *)
(***************************************************************************)
\* <<i, n>>: the prefix is s[1..i], the length token has n digits
ConventionSplits(s) ==
    {split \in (1..Len(s)) \X (1..4) :
        LET i == split[1]
            n == split[2]
        IN \E suffix \in {hdf5, gwf} :
            /\ Len(s) = i + 1 + 10 + 1 + n + 1 + Len(suffix)
            /\ \A k \in 1..i : s[k] \in Letters \cup Digits \cup {"_", ":", "-"}
            /\ s[i + 1] = "-"
            /\ \A k \in (i + 2)..(i + 11) : s[k] \in Digits
            /\ s[i + 12] = "-"
            /\ s[i + 13] \in NonZeroDigits
            /\ \A k \in (i + 14)..(i + 12 + n) : s[k] \in Digits
            /\ s[i + 13 + n] = "."
            /\ SubSeq(s, i + 14 + n, Len(s)) = suffix}

Conforms(s) == ConventionSplits(s) # {}

ConventionStart(s) ==
    LET split == CHOOSE x \in ConventionSplits(s) : TRUE
    IN float(SubSeq(s, split[1] + 2, split[1] + 11))

ConventionLength(s) ==
    LET split == CHOOSE x \in ConventionSplits(s) : TRUE
    IN float(SubSeq(s, split[1] + 13, split[1] + 12 + split[2]))

Larger(a, b) == IF a >= b THEN a ELSE b

Smaller(a, b) == IF a <= b THEN a ELSE b

\* [a, b) and [c, d) have a point in common
Intersects(a, b, c, d) == Larger(a, c) < Smaller(b, d)

(***************************************************************************)
(* A finished call of filter_and_sort_files, as the claims speak of it.    *)
(***************************************************************************)
Filtered == op = "filter_and_sort_files" /\ pc = "return"

CandidateNames ==
    [k \in 1..Len(Candidates(args.fnames)) |->
        PathName(Candidates(args.fnames)[k].path)]

Homogeneous ==
    \A i, j \in 1..Len(Candidates(args.fnames)) :
        Candidates(args.fnames)[i].kind = Candidates(args.fnames)[j].kind

\* no path is given twice
ListedOnce ==
    \A i, j \in 1..Len(Candidates(args.fnames)) :
        i # j => Candidates(args.fnames)[i].path # Candidates(args.fnames)[j].path

AllConform == \A k \in DOMAIN CandidateNames : Conforms(CandidateNames[k])

\* candidate k is an entry of the returned list
InResult(k) ==
    /\ result.kind = "return"
    /\ \E r \in 1..Len(result.order) : result.order[r] = k

\* the bound filters of the specification, for a conforming candidate
PassesBounds(k) ==
    /\ (args.tf # None => ConventionStart(CandidateNames[k]) < args.tf[1])
    /\ (args.t0 # None =>
           ConventionStart(CandidateNames[k]) + ConventionLength(CandidateNames[k])
               > args.t0[1])

\* the start time of an entry of the returned list: a path, or a match
EntryStart(e) ==
    IF args.return_matches THEN ConventionStart(e.string)
    ELSE ConventionStart(PathName(e.path))

\* C1: with both t0 and tf given, whatever their order, a convention-matching
\* file is returned if and only if [start, start+length) intersects [t0, tf).
\* Stated for candidates each listed once, the case in which the sort cannot
\* raise.
C1_ReturnedIffOverlap ==
    (/\ Filtered
     /\ args.t0 # None
     /\ args.tf # None
     /\ Homogeneous
     /\ AllConform
     /\ ListedOnce) =>
        \A k \in DOMAIN CandidateNames :
            InResult(k) <=>
                Intersects(ConventionStart(CandidateNames[k]),
                           ConventionStart(CandidateNames[k])
                               + ConventionLength(CandidateNames[k]),
                           args.t0[1], args.tf[1])

\* C2: each bound is an independent strict filter applied only when given: a
\* convention-matching file is in the result if and only if (tf is absent or
\* start < tf) and (t0 is absent or start + length > t0).
C2_ReturnedIffPassesBounds ==
    (Filtered /\ Homogeneous /\ AllConform) =>
        \A k \in DOMAIN CandidateNames : InResult(k) <=> PassesBounds(k)

\* C3: the list filter_and_sort_files returns is non-decreasing in the numeric
\* start timestamp of its entries, whatever the order of the input.
C3_SortedByStart ==
    (Filtered /\ result.kind = "return") =>
        \A a, b \in 1..Len(result.value) :
            a < b => EntryStart(result.value[a]) <= EntryStart(result.value[b])

\* C3's case: a homogeneous list of convention-matching names given out of
\* order, later starts first, and returned reordered.
C3_Witness ==
    /\ Filtered
    /\ args.fnames.form = "iterable"
    /\ Homogeneous
    /\ AllConform
    /\ result.kind = "return"
    /\ Len(result.value) >= 2
    /\ \A a, b \in 1..Len(result.order) :
           a < b =>
               /\ result.order[a] > result.order[b]
               /\ EntryStart(result.value[a]) < EntryStart(result.value[b])

\* C4: when the candidates hold both convention-matching and non-matching
\* names, the call raises nothing, with or without bounds, and returns
\* exactly the matching files that pass the bound filters.  Stated for
\* candidates each listed once, the case in which the sort cannot raise.
C4_NonMatchingDropped ==
    (/\ Filtered
     /\ Homogeneous
     /\ ListedOnce
     /\ \E k \in DOMAIN CandidateNames : Conforms(CandidateNames[k])
     /\ \E k \in DOMAIN CandidateNames : ~Conforms(CandidateNames[k])) =>
        /\ result.kind = "return"
        /\ \A k \in DOMAIN CandidateNames :
               InResult(k) <=> (Conforms(CandidateNames[k]) /\ PassesBounds(k))

\* C5: a single path that is no directory and does not match the convention,
\* with neither bound given, is returned as a list of length 1 holding it.
C5_SingleNonMatchingReturned ==
    (/\ Filtered
     /\ args.fnames.form = "path"
     /\ ~args.fnames.is_dir
     /\ ~Conforms(PathName(args.fnames.path))
     /\ args.t0 = None
     /\ args.tf = None) =>
        /\ result.kind = "return"
        /\ Len(result.value) = 1
        /\ result.value[1].path = PathText(args.fnames.path)

\* C6: an iterable that is neither all Paths nor all strs fails with the
\* ValueError of the raise statement; one that is all Paths or all strs
\* never raises it.
C6_MixedRaisesValueError ==
    (Filtered /\ args.fnames.form = "iterable") =>
        IF Homogeneous
        THEN ~(result.kind = "raise" /\ result.exc = "ValueError")
        ELSE result.kind = "raise" /\ result.exc = "ValueError"

\* C10: the sort is stable: surviving entries with the same start timestamp
\* come out in the order they were given, also when a path is listed twice.
C10_StableSort ==
    (Filtered /\ Homogeneous /\ AllConform) =>
        \A i, j \in DOMAIN CandidateNames :
            (/\ i < j
             /\ ConventionStart(CandidateNames[i]) = ConventionStart(CandidateNames[j])
             /\ PassesBounds(i)
             /\ PassesBounds(j)) =>
                /\ result.kind = "return"
                /\ \E a, b \in 1..Len(result.order) :
                       a < b /\ result.order[a] = i /\ result.order[b] = j

(***************************************************************************)
(* The matcher, the validator and the writer.                              *)
(***************************************************************************)
\* the name has the form of the convention but, perhaps, for the one
\* character where the "." stands
ConformsButForSeparator(s) ==
    \E k \in 1..Len(s) : Conforms([s EXCEPT ![k] = "."])

\* C9: fname_re.search yields a match for a name if and only if the whole
\* name has the form of the convention, the separator before the suffix
\* being a literal ".".  Stated on the names that have that form but,
\* perhaps, for their separator.
C9_MatchIffConforms ==
    (/\ op = "fname_re.search"
     /\ pc = "return"
     /\ ConformsButForSeparator(args.string)) =>
        (result.matched <=> Conforms(args.string))

\* every channel has the start time, sample period and length of every other
SameParams(ts_dict) ==
    \A i, j \in 1..Len(ts_dict) :
        /\ ts_dict[i].t0 = ts_dict[j].t0
        /\ ts_dict[i].dt = ts_dict[j].dt
        /\ Len(ts_dict[i].value) = Len(ts_dict[j].value)

\* C7: _validate_ts_dict returns if and only if the mapping is non-empty and
\* all channels share one (start time, sample period, length); otherwise it
\* raises ValueError, and so does ts_dict_to_array, with nothing stacked.
C7_ValidIffOneTriple ==
    (op \in {"_validate_ts_dict", "ts_dict_to_array"} /\ pc = "return") =>
        IF Len(args.ts_dict) >= 1 /\ SameParams(args.ts_dict)
        THEN result.kind = "return"
        ELSE result.kind = "raise" /\ result.exc = "ValueError"

\* C7's case: channels that differ in length alone, refused by
\* ts_dict_to_array.
C7_Witness ==
    /\ op = "ts_dict_to_array"
    /\ pc = "return"
    /\ Len(args.ts_dict) >= 2
    /\ \A i, j \in 1..Len(args.ts_dict) :
           /\ args.ts_dict[i].t0 = args.ts_dict[j].t0
           /\ args.ts_dict[i].dt = args.ts_dict[j].dt
    /\ ~SameParams(args.ts_dict)
    /\ result.kind = "raise"

\* C8: for file_format hdf5 or gwf and channels of one length, write_timeseries
\* returns write_dir/<prefix>-<start>-<length>.<file_format>, start = times[0],
\* length = (times[-1] - times[0]) + (times[1] - times[0]), integral values
\* printed as integers (checked on time axes whose first two samples differ).
C8_NameHasRequestedSuffix ==
    (/\ op = "write_timeseries"
     /\ pc = "return"
     /\ args.file_format \in {hdf5, gwf}
     /\ Len(args.datasets) >= 1
     /\ \A i, j \in 1..Len(args.datasets) :
            Len(args.datasets[i].value) = Len(args.datasets[j].value)
     /\ Len(args.times) >= 2
     /\ args.times[2] # args.times[1]) =>
        /\ result.kind = "return"
        /\ result.value.path =
               args.write_dir \o <<"/">>
               \o FileName(args.prefix,
                           Formatted(_intify(args.times[1])),
                           Formatted(_intify((args.times[Len(args.times)] - args.times[1])
                                             + (args.times[2] - args.times[1]))),
                           args.file_format)

====
